---- MODULE Spec2Model ----
(***************************************************************************)
(* Model of whiskers' _ConnectionPool (python/whiskers/ddbc_bindings.py).  *)
(* Threads call enable, disable, get and put on the process-wide pool.     *)
(* Each thread advances one statement (or one locked region fragment) at   *)
(* a time, so the unlocked reads and writes of _enabled, _max_size and     *)
(* _idle_timeout interleave with the regions guarded by _lock.             *)
(* Row (python/whiskers/row.py) is modelled beside it: one Row, read by    *)
(* name, converted by _apply_output_converters and compared with __eq__.   *)
(***************************************************************************)
EXTENDS Integers, Sequences, FiniteSets, TLC

\* ---- bounds of the model ----
NumThreads == 2
NumKeys == 2
NumConns == 2
MaxTime == 1
MaxMaxSize == 2
MaxIdleTimeout == 1
MaxCols == 2

\* ---- program constants ----
DefaultMaxSize == 100
DefaultIdleTimeout == 600

Threads == 1..NumThreads
Keys == 1..NumKeys
Conns == 1..NumConns
NoThread == 0
NoConn == 0
NoKey == 0

VARIABLES
    lock,          \* _lock: the thread holding it, or NoThread
    pools,         \* _pools: conn_str -> list of <<conn, returned_at>>; a key
                   \* the defaultdict does not hold yet has the empty list
    enabled,       \* _enabled
    max_size,      \* _max_size
    idle_timeout,  \* _idle_timeout
    monotonic,     \* the value _time.monotonic() returns now
    closes,        \* per connection, how often conn.close() was invoked
    pc,            \* per thread, the statement it is about to execute
    op,            \* per thread, the pool method it is running
    conn_str,      \* per thread, the key argument of get/put
    conn,          \* per thread, put's argument or the entry's conn in get/disable
    a_max_size,    \* per thread, enable's argument max_size
    a_idle_timeout,\* per thread, enable's argument idle_timeout
    returned_at,   \* per thread, get's local returned_at
    now,           \* per thread, get's local now
    idx,           \* per thread, how many entries disable's loops have visited
    ret,           \* per thread, the value the finished call returned
    raised,        \* per thread, whether the finished call raised
    seen,          \* per thread, the key's list when get took the lock
    log,           \* per thread, the probe/close calls made by the running call
    tracked,       \* the connection whose storing is observed, or NoConn
    stored_under,  \* _idle_timeout when put stored the tracked connection,
                   \* kept while it is stored or just taken out
    values,        \* Row._values: the container kind and the elements
    column_map,    \* Row._column_map: None, or the column names in declaration
                   \* order (the name at position i maps to index i)
    lowercase,     \* whether Row._cursor_ref has a true lowercase attribute
    converters,    \* the SQL types cursor.connection has an output converter for
    applied,       \* whether _apply_output_converters has run on the Row
    rout           \* the last Row operation: its arguments and its outcome

poolvars == <<lock, pools, enabled, max_size, idle_timeout, monotonic, closes,
              pc, op, conn_str, conn, a_max_size, a_idle_timeout, returned_at,
              now, idx, ret, raised, seen, log, tracked, stored_under>>

rowvars == <<values, column_map, lowercase, converters, applied, rout>>

vars == <<poolvars, rowvars>>

config == <<enabled, max_size, idle_timeout>>
locals == <<conn_str, conn, a_max_size, a_idle_timeout, returned_at, now, idx,
            ret, raised, seen, log>>

\* ---- helpers over lists ----
Last(s) == s[Len(s)]
Front(s) == SubSeq(s, 1, Len(s) - 1)

ConnsOf(s) == {s[i][1] : i \in 1..Len(s)}
Stored == UNION {ConnsOf(pools[k]) : k \in Keys}

\* the entries of every per-key list, in the order disable's loops visit them
\* (the dict yields its keys in insertion order; here they come by number,
\* which changes only the order of the close calls)
RECURSIVE Items(_, _)
Items(p, k) == IF k = 0 THEN <<>> ELSE Items(p, k - 1) \o p[k]

\* a connection the application holds: not pooled, not closed by the pool,
\* and not inside a call that is still running or not yet collected
InFlight == {conn[t] : t \in Threads} \cup {ret[t] : t \in Threads}
Owned(c) == c \notin Stored /\ closes[c] = 0 /\ c \notin InFlight

\* the comparison of get, line 86
FreshInclusive(n, r, timeout) == n - r <= timeout
Fresh(n, r, timeout) == n - r < timeout

\* the comparison of put, line 108
HasRoomInclusive(n, m) == n <= m
HasRoom(n, m) == n < m

\* pool.pop(): the entry taken and the list left
PopFirst(pool) == <<Head(pool), Tail(pool)>>
PopPeek(pool) == <<Last(pool), pool>>
Pop(pool) == <<Last(pool), Front(pool)>>

\* ---- Row (row.py) ----
\* None, as a value of a row
Null == 0
\* values that are neither str nor bytes, str values, bytes values
Numbers == {1}
Strs == {3}
Bytes == {5}
Vals == {Null} \cup Numbers \cup Strs \cup Bytes

\* the sequences over S of length at most n
SeqsUpTo(S, n) == UNION {[1..m -> S] : m \in 0..n}

\* column names, and the names asked of a Row
ColNames == {"Name", "NAME", "name", "id"}
AttrNames == ColNames \cup {"Id", "missing"}

\* str.lower() on these names
Lower(name) ==
    CASE name \in {"Name", "NAME", "name"} -> "name"
      [] name \in {"Id", "id"} -> "id"
      [] OTHER -> name

\* column_map=None, and a dict with the keys names in declaration order
NoColumnMap == [none |-> TRUE, names |-> <<>>]
ColumnMap(names) == [none |-> FALSE, names |-> names]

\* the ordered dicts naming n columns, each name once
ColumnMaps(n) ==
    {ColumnMap(names) : names \in
        {f \in [1..n -> ColNames] : \A i, j \in 1..n : f[i] = f[j] => i = j}}

\* a descriptor that is None; the other descriptors are their SQL type, desc[1]
NoDesc == 0
\* the ODBC codes of an integer column and of ConstantsDDBC.SQL_WVARCHAR; the
\* loop only tells the second from every other type
SQL_INTEGER == 4
SQL_WVARCHAR == -9
SqlTypes == {SQL_INTEGER, SQL_WVARCHAR}
Descs == {NoDesc} \cup SqlTypes

\* get_output_converter found nothing
NoConverter == 0

\* the record rout holds when no Row operation has run
NoOut ==
    [op |-> "none", res |-> "none", val |-> 0, name |-> "", type |-> "",
     kind |-> "", elems |-> <<>>, description |-> <<>>, failing |-> {}]

\* the state of the Row side while only the pool is exercised
RowInit ==
    /\ values = [kind |-> "tuple", elems |-> <<>>]
    /\ column_map = NoColumnMap
    /\ lowercase = FALSE
    /\ converters = {}
    /\ applied = FALSE
    /\ rout = NoOut

\* _ConnectionPool.__init__
PoolInit ==
    /\ lock = NoThread
    /\ pools = [k \in Keys |-> <<>>]
    /\ enabled = FALSE
    /\ max_size = DefaultMaxSize
    /\ idle_timeout = DefaultIdleTimeout
    /\ monotonic = 0
    /\ closes = [c \in Conns |-> 0]
    /\ pc = [t \in Threads |-> "idle"]
    /\ op = [t \in Threads |-> "none"]
    /\ conn_str = [t \in Threads |-> NoKey]
    /\ conn = [t \in Threads |-> NoConn]
    /\ a_max_size = [t \in Threads |-> 0]
    /\ a_idle_timeout = [t \in Threads |-> 0]
    /\ returned_at = [t \in Threads |-> 0]
    /\ now = [t \in Threads |-> 0]
    /\ idx = [t \in Threads |-> 0]
    /\ ret = [t \in Threads |-> NoConn]
    /\ raised = [t \in Threads |-> FALSE]
    /\ seen = [t \in Threads |-> <<>>]
    /\ log = [t \in Threads |-> <<>>]
    /\ stored_under = 0

\* no connection is observed
Untracked == tracked = NoConn

Init == PoolInit /\ Untracked /\ RowInit

\* _time.monotonic() advances
Tick ==
    /\ monotonic < MaxTime
    /\ monotonic' = monotonic + 1
    /\ UNCHANGED <<lock, pools, config, closes, pc, op, locals>>
    /\ UNCHANGED <<tracked, stored_under, rowvars>>

\* the call has finished: what it returned or raised is in ret/raised
Finish(t, r, e) ==
    /\ pc' = [pc EXCEPT ![t] = "done"]
    /\ ret' = [ret EXCEPT ![t] = r]
    /\ raised' = [raised EXCEPT ![t] = e]

\* the caller takes the result; the frame of the call is gone
Return(t) ==
    /\ pc[t] = "done"
    /\ pc' = [pc EXCEPT ![t] = "idle"]
    /\ op' = [op EXCEPT ![t] = "none"]
    /\ conn_str' = [conn_str EXCEPT ![t] = NoKey]
    /\ conn' = [conn EXCEPT ![t] = NoConn]
    /\ a_max_size' = [a_max_size EXCEPT ![t] = 0]
    /\ a_idle_timeout' = [a_idle_timeout EXCEPT ![t] = 0]
    /\ returned_at' = [returned_at EXCEPT ![t] = 0]
    /\ now' = [now EXCEPT ![t] = 0]
    /\ idx' = [idx EXCEPT ![t] = 0]
    /\ ret' = [ret EXCEPT ![t] = NoConn]
    /\ raised' = [raised EXCEPT ![t] = FALSE]
    /\ seen' = [seen EXCEPT ![t] = <<>>]
    /\ log' = [log EXCEPT ![t] = <<>>]
    /\ stored_under' = IF tracked \in Stored THEN stored_under ELSE 0
    /\ UNCHANGED <<lock, pools, config, monotonic, closes, tracked>>
    /\ UNCHANGED rowvars

\* conn.close() is invoked on c by thread t
InvokeClose(t, c) ==
    /\ closes' = [closes EXCEPT ![c] = @ + 1]
    /\ log' = [log EXCEPT ![t] = Append(@, <<"close", c>>)]

\* the call sites of conn.close() that sit inside try/except Exception: pass
SwallowedInGetOnly(site) == site = "get"
Swallowed(site) == site \in {"disable", "get"}

\* ---- enable(max_size, idle_timeout): three writes, no lock ----
CallEnable(t, m, i) ==
    /\ pc[t] = "idle"
    /\ pc' = [pc EXCEPT ![t] = "e_enabled"]
    /\ op' = [op EXCEPT ![t] = "enable"]
    /\ a_max_size' = [a_max_size EXCEPT ![t] = m]
    /\ a_idle_timeout' = [a_idle_timeout EXCEPT ![t] = i]
    /\ UNCHANGED <<lock, pools, config, monotonic, closes,
                   conn_str, conn, returned_at, now, idx, ret, raised, seen, log>>
    /\ UNCHANGED <<tracked, stored_under, rowvars>>

EnableSetEnabledReset(t) ==
    /\ pc[t] = "e_enabled"
    /\ enabled' = TRUE
    /\ pools' = [k \in Keys |-> <<>>]
    /\ pc' = [pc EXCEPT ![t] = "e_max_size"]
    /\ UNCHANGED <<lock, max_size, idle_timeout, monotonic, closes, op, locals>>
    /\ UNCHANGED <<tracked, stored_under, rowvars>>

EnableSetEnabled(t) ==
    /\ pc[t] = "e_enabled"
    /\ enabled' = TRUE
    /\ pc' = [pc EXCEPT ![t] = "e_max_size"]
    /\ UNCHANGED <<lock, pools, max_size, idle_timeout, monotonic, closes, op, locals>>
    /\ UNCHANGED <<tracked, stored_under, rowvars>>

EnableSetMaxSize(t) ==
    /\ pc[t] = "e_max_size"
    /\ max_size' = a_max_size[t]
    /\ pc' = [pc EXCEPT ![t] = "e_idle_timeout"]
    /\ UNCHANGED <<lock, pools, enabled, idle_timeout, monotonic, closes, op, locals>>
    /\ UNCHANGED <<tracked, stored_under, rowvars>>

EnableSetIdleTimeout(t) ==
    /\ pc[t] = "e_idle_timeout"
    /\ idle_timeout' = a_idle_timeout[t]
    /\ Finish(t, NoConn, FALSE)
    /\ UNCHANGED <<lock, pools, enabled, max_size, monotonic, closes, op,
                   conn_str, conn, a_max_size, a_idle_timeout, returned_at, now,
                   idx, seen, log>>
    /\ UNCHANGED <<tracked, stored_under, rowvars>>

\* ---- disable(): unlocked write of _enabled, then close all and clear ----
CallDisable(t) ==
    /\ pc[t] = "idle"
    /\ pc' = [pc EXCEPT ![t] = "d_enabled"]
    /\ op' = [op EXCEPT ![t] = "disable"]
    /\ UNCHANGED <<lock, pools, config, monotonic, closes, locals>>
    /\ UNCHANGED <<tracked, stored_under, rowvars>>

DisableSetEnabled(t) ==
    /\ pc[t] = "d_enabled"
    /\ enabled' = FALSE
    /\ pc' = [pc EXCEPT ![t] = "d_lock"]
    /\ UNCHANGED <<lock, pools, max_size, idle_timeout, monotonic, closes, op, locals>>
    /\ UNCHANGED <<tracked, stored_under, rowvars>>

DisableLock(t) ==
    /\ pc[t] = "d_lock"
    /\ lock = NoThread
    /\ lock' = t
    /\ pc' = [pc EXCEPT ![t] = "d_loop"]
    /\ UNCHANGED <<pools, config, monotonic, closes, op, locals>>
    /\ UNCHANGED <<tracked, stored_under, rowvars>>

\* the two nested for loops: the next entry, or past the last one
DisableLoop(t) ==
    /\ pc[t] = "d_loop"
    /\ IF idx[t] < Len(Items(pools, NumKeys))
       THEN /\ conn' = [conn EXCEPT ![t] = Items(pools, NumKeys)[idx[t] + 1][1]]
            /\ idx' = [idx EXCEPT ![t] = @ + 1]
            /\ pc' = [pc EXCEPT ![t] = "d_close"]
       ELSE /\ pc' = [pc EXCEPT ![t] = "d_clear"]
            /\ UNCHANGED <<conn, idx>>
    /\ UNCHANGED <<lock, pools, config, monotonic, closes, op, conn_str,
                   a_max_size, a_idle_timeout, returned_at, now, ret, raised,
                   seen, log>>
    /\ UNCHANGED <<tracked, stored_under, rowvars>>

DisableClose(t) ==
    /\ pc[t] = "d_close"
    /\ InvokeClose(t, conn[t])
    /\ \E exc \in BOOLEAN :
         IF exc /\ ~Swallowed("disable")
         THEN /\ lock' = NoThread
              /\ Finish(t, NoConn, TRUE)
         ELSE /\ pc' = [pc EXCEPT ![t] = "d_loop"]
              /\ UNCHANGED <<lock, ret, raised>>
    /\ UNCHANGED <<pools, config, monotonic, op, conn_str, conn, a_max_size,
                   a_idle_timeout, returned_at, now, idx, seen>>
    /\ UNCHANGED <<tracked, stored_under, rowvars>>

DisableClearKeep(t) ==
    /\ pc[t] = "d_clear"
    /\ lock' = NoThread
    /\ Finish(t, NoConn, FALSE)
    /\ UNCHANGED <<pools, config, monotonic, closes, op, conn_str, conn,
                   a_max_size, a_idle_timeout, returned_at, now, idx, seen, log>>
    /\ UNCHANGED <<tracked, stored_under, rowvars>>

\* self._pools.clear(), and the with block ends
DisableClear(t) ==
    /\ pc[t] = "d_clear"
    /\ pools' = [k \in Keys |-> <<>>]
    /\ lock' = NoThread
    /\ Finish(t, NoConn, FALSE)
    /\ UNCHANGED <<config, monotonic, closes, op, conn_str, conn, a_max_size,
                   a_idle_timeout, returned_at, now, idx, seen, log>>
    /\ UNCHANGED <<tracked, stored_under, rowvars>>

\* ---- get(conn_str) ----
CallGet(t, k) ==
    /\ pc[t] = "idle"
    /\ pc' = [pc EXCEPT ![t] = "g_enabled"]
    /\ op' = [op EXCEPT ![t] = "get"]
    /\ conn_str' = [conn_str EXCEPT ![t] = k]
    /\ UNCHANGED <<lock, pools, config, monotonic, closes, conn, a_max_size,
                   a_idle_timeout, returned_at, now, idx, ret, raised, seen, log>>
    /\ UNCHANGED <<tracked, stored_under, rowvars>>

\* if not self._enabled: return None (read without the lock)
GetCheckEnabled(t) ==
    /\ pc[t] = "g_enabled"
    /\ IF ~enabled
       THEN Finish(t, NoConn, FALSE)
       ELSE /\ pc' = [pc EXCEPT ![t] = "g_lock"]
            /\ UNCHANGED <<ret, raised>>
    /\ UNCHANGED <<lock, pools, config, monotonic, closes, op, conn_str, conn,
                   a_max_size, a_idle_timeout, returned_at, now, idx, seen, log>>
    /\ UNCHANGED <<tracked, stored_under, rowvars>>

\* with self._lock: pool = self._pools.get(conn_str, []); now = monotonic()
GetLock(t) ==
    /\ pc[t] = "g_lock"
    /\ lock = NoThread
    /\ lock' = t
    /\ now' = [now EXCEPT ![t] = monotonic]
    /\ seen' = [seen EXCEPT ![t] = pools[conn_str[t]]]
    /\ pc' = [pc EXCEPT ![t] = "g_loop"]
    /\ UNCHANGED <<pools, config, monotonic, closes, op, conn_str, conn,
                   a_max_size, a_idle_timeout, returned_at, idx, ret, raised, log>>
    /\ UNCHANGED <<tracked, stored_under, rowvars>>

GetLoopStoredTimeout(t) ==
    /\ pc[t] = "g_loop"
    /\ LET pool == pools[conn_str[t]] IN
       IF pool = <<>>
       THEN /\ lock' = NoThread
            /\ Finish(t, NoConn, FALSE)
            /\ UNCHANGED <<pools, conn, returned_at>>
       ELSE /\ pools' = [pools EXCEPT ![conn_str[t]] = Pop(pool)[2]]
            /\ conn' = [conn EXCEPT ![t] = Pop(pool)[1][1]]
            /\ returned_at' = [returned_at EXCEPT ![t] = Pop(pool)[1][2]]
            /\ pc' = [pc EXCEPT ![t] =
                   IF Fresh(now[t], Pop(pool)[1][2],
                            IF Pop(pool)[1][1] = tracked THEN stored_under
                            ELSE idle_timeout)
                   THEN "g_probe" ELSE "g_close"]
            /\ UNCHANGED <<lock, ret, raised>>
    /\ UNCHANGED <<config, monotonic, closes, op, conn_str, a_max_size,
                   a_idle_timeout, now, idx, seen, log>>
    /\ UNCHANGED <<tracked, stored_under, rowvars>>

\* while pool: pop the last entry and compare its age with _idle_timeout
GetLoop(t) ==
    /\ pc[t] = "g_loop"
    /\ LET pool == pools[conn_str[t]] IN
       IF pool = <<>>
       THEN /\ lock' = NoThread
            /\ Finish(t, NoConn, FALSE)
            /\ UNCHANGED <<pools, conn, returned_at>>
       ELSE /\ pools' = [pools EXCEPT ![conn_str[t]] = Pop(pool)[2]]
            /\ conn' = [conn EXCEPT ![t] = Pop(pool)[1][1]]
            /\ returned_at' = [returned_at EXCEPT ![t] = Pop(pool)[1][2]]
            /\ pc' = [pc EXCEPT ![t] =
                   IF Fresh(now[t], Pop(pool)[1][2], idle_timeout)
                   THEN "g_probe" ELSE "g_close"]
            /\ UNCHANGED <<lock, ret, raised>>
    /\ UNCHANGED <<config, monotonic, closes, op, conn_str, a_max_size,
                   a_idle_timeout, now, idx, seen, log>>
    /\ UNCHANGED <<tracked, stored_under, rowvars>>

GetProbeRetry(t) ==
    /\ pc[t] = "g_probe"
    /\ log' = [log EXCEPT ![t] = Append(@, <<"probe", conn[t]>>)]
    /\ \E ok \in BOOLEAN :
         IF ok
         THEN /\ lock' = NoThread
              /\ Finish(t, conn[t], FALSE)
         ELSE UNCHANGED <<lock, pc, ret, raised>>
    /\ UNCHANGED <<pools, config, monotonic, closes, op, conn_str, conn,
                   a_max_size, a_idle_timeout, returned_at, now, idx, seen>>
    /\ UNCHANGED <<tracked, stored_under, rowvars>>

\* conn.alloc_statement_handle().free(): passes and get returns conn, or raises
GetProbe(t) ==
    /\ pc[t] = "g_probe"
    /\ log' = [log EXCEPT ![t] = Append(@, <<"probe", conn[t]>>)]
    /\ \E ok \in BOOLEAN :
         IF ok
         THEN /\ lock' = NoThread
              /\ Finish(t, conn[t], FALSE)
         ELSE /\ pc' = [pc EXCEPT ![t] = "g_close"]
              /\ UNCHANGED <<lock, ret, raised>>
    /\ UNCHANGED <<pools, config, monotonic, closes, op, conn_str, conn,
                   a_max_size, a_idle_timeout, returned_at, now, idx, seen>>
    /\ UNCHANGED <<tracked, stored_under, rowvars>>

GetCloseBreak(t) ==
    /\ pc[t] = "g_close"
    /\ InvokeClose(t, conn[t])
    /\ lock' = NoThread
    /\ Finish(t, NoConn, FALSE)
    /\ UNCHANGED <<pools, config, monotonic, op, conn_str, conn, a_max_size,
                   a_idle_timeout, returned_at, now, idx, seen>>
    /\ UNCHANGED <<tracked, stored_under, rowvars>>

\* conn.close() of an expired or dead entry, inside try/except
GetClose(t) ==
    /\ pc[t] = "g_close"
    /\ InvokeClose(t, conn[t])
    /\ \E exc \in BOOLEAN :
         IF exc /\ ~Swallowed("get")
         THEN /\ lock' = NoThread
              /\ Finish(t, NoConn, TRUE)
         ELSE /\ pc' = [pc EXCEPT ![t] = "g_loop"]
              /\ UNCHANGED <<lock, ret, raised>>
    /\ UNCHANGED <<pools, config, monotonic, op, conn_str, conn, a_max_size,
                   a_idle_timeout, returned_at, now, idx, seen>>
    /\ UNCHANGED <<tracked, stored_under, rowvars>>

\* ---- put(conn_str, conn) ----
CallPut(t, k, c) ==
    /\ pc[t] = "idle"
    /\ Owned(c)
    /\ pc' = [pc EXCEPT ![t] = "p_enabled"]
    /\ op' = [op EXCEPT ![t] = "put"]
    /\ conn_str' = [conn_str EXCEPT ![t] = k]
    /\ conn' = [conn EXCEPT ![t] = c]
    /\ UNCHANGED <<lock, pools, config, monotonic, closes, a_max_size,
                   a_idle_timeout, returned_at, now, idx, ret, raised, seen, log>>
    /\ UNCHANGED <<tracked, stored_under, rowvars>>

\* if not self._enabled (read without the lock)
PutCheckEnabled(t) ==
    /\ pc[t] = "p_enabled"
    /\ pc' = [pc EXCEPT ![t] = IF ~enabled THEN "p_close_disabled" ELSE "p_lock"]
    /\ UNCHANGED <<lock, pools, config, monotonic, closes, op, locals>>
    /\ UNCHANGED <<tracked, stored_under, rowvars>>

\* conn.close(); return -- no try/except around it
PutCloseDisabled(t) ==
    /\ pc[t] = "p_close_disabled"
    /\ InvokeClose(t, conn[t])
    /\ \E exc \in BOOLEAN : Finish(t, NoConn, exc /\ ~Swallowed("put_disabled"))
    /\ UNCHANGED <<lock, pools, config, monotonic, op, conn_str, conn, a_max_size,
                   a_idle_timeout, returned_at, now, idx, seen>>
    /\ UNCHANGED <<tracked, stored_under, rowvars>>

PutLock(t) ==
    /\ pc[t] = "p_lock"
    /\ lock = NoThread
    /\ lock' = t
    /\ pc' = [pc EXCEPT ![t] = "p_store"]
    /\ UNCHANGED <<pools, config, monotonic, closes, op, locals>>
    /\ UNCHANGED <<tracked, stored_under, rowvars>>

PutStoreFirstKey(t) ==
    /\ pc[t] = "p_store"
    /\ IF HasRoom(Len(pools[conn_str[t]]), max_size)
       THEN /\ pools' = [pools EXCEPT ![1] = Append(@, <<conn[t], monotonic>>)]
            /\ stored_under' = IF conn[t] = tracked THEN idle_timeout
                               ELSE stored_under
            /\ lock' = NoThread
            /\ Finish(t, NoConn, FALSE)
       ELSE /\ pc' = [pc EXCEPT ![t] = "p_close_full"]
            /\ UNCHANGED <<lock, pools, ret, raised, stored_under>>
    /\ UNCHANGED <<config, monotonic, closes, op, conn_str, conn, a_max_size,
                   a_idle_timeout, returned_at, now, idx, seen, log>>
    /\ UNCHANGED <<tracked, rowvars>>

\* if len(pool) < self._max_size: pool.append((conn, monotonic())) else close
PutStore(t) ==
    /\ pc[t] = "p_store"
    /\ IF HasRoom(Len(pools[conn_str[t]]), max_size)
       THEN /\ pools' = [pools EXCEPT ![conn_str[t]] =
                            Append(@, <<conn[t], monotonic>>)]
            /\ stored_under' = IF conn[t] = tracked THEN idle_timeout
                               ELSE stored_under
            /\ lock' = NoThread
            /\ Finish(t, NoConn, FALSE)
       ELSE /\ pc' = [pc EXCEPT ![t] = "p_close_full"]
            /\ UNCHANGED <<lock, pools, ret, raised, stored_under>>
    /\ UNCHANGED <<config, monotonic, closes, op, conn_str, conn, a_max_size,
                   a_idle_timeout, returned_at, now, idx, seen, log>>
    /\ UNCHANGED <<tracked, rowvars>>

PutCloseFullLeak(t) ==
    /\ pc[t] = "p_close_full"
    /\ InvokeClose(t, conn[t])
    /\ \E exc \in BOOLEAN :
         /\ lock' = IF exc THEN lock ELSE NoThread
         /\ Finish(t, NoConn, exc /\ ~Swallowed("put_full"))
    /\ UNCHANGED <<pools, config, monotonic, op, conn_str, conn, a_max_size,
                   a_idle_timeout, returned_at, now, idx, seen>>
    /\ UNCHANGED <<tracked, stored_under, rowvars>>

\* conn.close() inside the with block, no try/except; the with releases the lock
PutCloseFull(t) ==
    /\ pc[t] = "p_close_full"
    /\ InvokeClose(t, conn[t])
    /\ lock' = NoThread
    /\ \E exc \in BOOLEAN : Finish(t, NoConn, exc /\ ~Swallowed("put_full"))
    /\ UNCHANGED <<pools, config, monotonic, op, conn_str, conn, a_max_size,
                   a_idle_timeout, returned_at, now, idx, seen>>
    /\ UNCHANGED <<tracked, stored_under, rowvars>>

\* ---- the threads ----
\* one statement of thread t
Step(t) ==
    \/ \E m \in 1..MaxMaxSize, i \in 0..MaxIdleTimeout : CallEnable(t, m, i)
    \/ EnableSetEnabled(t)
    \/ EnableSetMaxSize(t)
    \/ EnableSetIdleTimeout(t)
    \/ CallDisable(t)
    \/ DisableSetEnabled(t)
    \/ DisableLock(t)
    \/ DisableLoop(t)
    \/ DisableClose(t)
    \/ DisableClear(t)
    \/ \E k \in Keys : CallGet(t, k)
    \/ GetCheckEnabled(t)
    \/ GetLock(t)
    \/ GetLoop(t)
    \/ GetProbe(t)
    \/ GetClose(t)
    \/ \E k \in Keys, c \in Conns : CallPut(t, k, c)
    \/ PutCheckEnabled(t)
    \/ PutLock(t)
    \/ PutStore(t)
    \/ PutCloseDisabled(t)
    \/ PutCloseFull(t)
    \/ Return(t)

\* threads running pool methods at the same time
Next == Tick \/ \E t \in Threads : Step(t)

Spec == Init /\ [][Next]_vars

\* sequential use: every call runs from its first statement to its return
\* before the next one starts; one thread making all the calls shows it
SeqNext == Tick \/ Step(1)

SeqSpec == Init /\ [][SeqNext]_vars

\* a thread inside a pool method keeps running: the interpreter schedules
\* every runnable thread, and the probe and close calls return
Run(t) == pc[t] \notin {"idle", "done"} /\ Step(t)

FairSpec == Spec /\ \A t \in Threads : WF_vars(Run(t))

\* sequential use by a caller that keeps running once inside a pool method
FairSeqSpec == SeqSpec /\ WF_vars(Run(1))

\* sequential use, the first connection being observed
TrackedInit == PoolInit /\ tracked = 1 /\ RowInit

TrackedSpec == TrackedInit /\ [][SeqNext]_vars

\* ---- Row.__getattr__ ----
\* the index column_map[name] of a key of the dict
ColumnIndex(name) ==
    CHOOSE i \in 1..Len(column_map.names) : column_map.names[i] = name

\* the keys the loop of lines 60-62 accepts for name
FoldedMatches(name) ==
    {i \in 1..Len(column_map.names) : Lower(column_map.names[i]) = Lower(name)}

LastFolded(name) ==
    CHOOSE i \in FoldedMatches(name) : \A j \in FoldedMatches(name) : j <= i

\* the key at which that loop returns: it walks the dict in declaration order
FirstFolded(name) ==
    CHOOSE i \in FoldedMatches(name) : \A j \in FoldedMatches(name) : i <= j

\* what row.<name> evaluates to, once the normal attribute lookup has failed
GetAttrResult(name) ==
    IF ~column_map.none /\ \E i \in 1..Len(column_map.names) : column_map.names[i] = name
    THEN [res |-> "value", val |-> values.elems[ColumnIndex(name)]]
    ELSE IF lowercase
    THEN IF column_map.none
         \* for col_name in None
         THEN [res |-> "TypeError", val |-> 0]
         ELSE IF FoldedMatches(name) # {}
         THEN [res |-> "value", val |-> values.elems[FirstFolded(name)]]
         ELSE [res |-> "AttributeError", val |-> 0]
    ELSE [res |-> "AttributeError", val |-> 0]

GetAttr(name) ==
    /\ rout' = [NoOut EXCEPT !.op = "getattr", !.name = name,
                             !.res = GetAttrResult(name).res,
                             !.val = GetAttrResult(name).val]
    /\ UNCHANGED <<values, column_map, lowercase, converters, applied>>
    /\ UNCHANGED poolvars

\* ---- Row._apply_output_converters ----
\* value.encode('utf-16-le'): the bytes of a str
Encode(value) == value + 100

\* what the converter registered for SQL type ty returns for x
Converter(ty, x) == 1000 * (ty + 10) + x

\* lines 29-33: the converter used for a value whose descriptor has type ty
Lookup(ty, value) ==
    IF ty \in converters THEN ty
    ELSE IF value \in Strs \cup Bytes /\ SQL_WVARCHAR \in converters
    THEN SQL_WVARCHAR
    ELSE NoConverter

\* lines 25-43 for one position; fails says that the converter raises there
Converted(value, desc, fails) ==
    IF desc = NoDesc \/ value = Null THEN value
    ELSE IF Lookup(desc, value) = NoConverter \/ fails THEN value
    ELSE IF value \in Strs THEN Converter(Lookup(desc, value), Encode(value))
    ELSE Converter(Lookup(desc, value), value)

RECURSIVE LoopAbort(_, _, _, _)
LoopAbort(vs, description, failing, i) ==
    IF i > Len(vs) \/ i > Len(description) THEN vs
    ELSE IF i \in failing /\ vs[i] # Converted(vs[i], description[i], FALSE) THEN vs
    ELSE LoopAbort([vs EXCEPT ![i] = Converted(vs[i], description[i], FALSE)],
                   description, failing, i + 1)

RECURSIVE Loop(_, _, _, _)
\* the loop of lines 24-43 from position i on: zip stops at the shorter
Loop(vs, description, failing, i) ==
    IF i > Len(vs) \/ i > Len(description) THEN vs
    ELSE Loop([vs EXCEPT ![i] = Converted(vs[i], description[i], i \in failing)],
              description, failing, i + 1)

\* failing: the positions at which a converter, if called, raises
ApplyOutputConverters(description, failing) ==
    /\ ~applied
    /\ applied' = TRUE
    /\ values' = IF description = <<>> THEN values
                 ELSE [kind |-> "list",
                       elems |-> Loop(values.elems, description, failing, 1)]
    /\ rout' = [NoOut EXCEPT !.op = "apply", !.res = "None",
                             !.kind = values.kind, !.elems = values.elems,
                             !.description = description, !.failing = failing]
    /\ UNCHANGED <<column_map, lowercase, converters>>
    /\ UNCHANGED poolvars

\* ---- Row.__eq__ ----
\* the objects a Row is compared with: a list, a tuple, or a Row whose
\* _values is a list or a tuple
Others(elems) ==
    {[type |-> "list", kind |-> "list", elems |-> elems],
     [type |-> "tuple", kind |-> "tuple", elems |-> elems],
     [type |-> "Row", kind |-> "list", elems |-> elems],
     [type |-> "Row", kind |-> "tuple", elems |-> elems]}

\* a == b of two built-in sequences: a list never equals a tuple
SeqEq(akind, aelems, bkind, belems) == akind = bkind /\ aelems = belems

RowEq(other) ==
    IF other.type = "list" THEN SeqEq("list", values.elems, "list", other.elems)
    ELSE IF other.type = "Row"
    THEN SeqEq(values.kind, values.elems, other.kind, other.elems)
    \* object.__eq__ gives NotImplemented, and so does the reflected call
    ELSE FALSE

Eq(other) ==
    /\ rout' = [NoOut EXCEPT !.op = "eq", !.type = other.type,
                             !.kind = other.kind, !.elems = other.elems,
                             !.res = IF RowEq(other) THEN "True" ELSE "False"]
    /\ UNCHANGED <<values, column_map, lowercase, converters, applied>>
    /\ UNCHANGED poolvars

\* ---- rows read by name ----
AttrInit ==
    /\ PoolInit
    /\ Untracked
    /\ values \in [kind : {"tuple", "list"}, elems : SeqsUpTo(Vals, MaxCols)]
    /\ column_map \in {NoColumnMap} \cup ColumnMaps(Len(values.elems))
    /\ lowercase \in BOOLEAN
    /\ converters = {}
    /\ applied = FALSE
    /\ rout = NoOut

AttrNext == \E name \in AttrNames : GetAttr(name)

AttrSpec == AttrInit /\ [][AttrNext]_vars

\* ---- rows converted and compared ----
ConvInit ==
    /\ PoolInit
    /\ Untracked
    /\ values \in [kind : {"tuple", "list"}, elems : SeqsUpTo(Vals, MaxCols)]
    /\ column_map = NoColumnMap
    /\ lowercase = FALSE
    /\ converters \in SUBSET SqlTypes
    /\ applied = FALSE
    /\ rout = NoOut

ConvNext ==
    \/ \E description \in SeqsUpTo(Descs, MaxCols), failing \in SUBSET (1..MaxCols) :
           ApplyOutputConverters(description, failing)
    \/ \E elems \in {values.elems, Append(values.elems, Null), <<>>} :
           \E other \in Others(elems) : Eq(other)

ConvSpec == ConvInit /\ [][ConvNext]_vars

\* ---- vocabulary of the properties ----
Running(t, o) == op[t] = o /\ pc[t] \notin {"idle", "done"}
Finished(t, o) == op[t] = o /\ pc[t] = "done"
Completes(t, o) == op[t] = o /\ pc[t] # "done" /\ pc'[t] = "done"

\* how often the running call of t invoked close (probe) on c
Count(l, kind, c) == Cardinality({i \in 1..Len(l) : l[i] = <<kind, c>>})

\* C1: after any sequence of enable, put, get and disable, every key holds
\* at most max_size entries
C1_WithinMaxSize == \A k \in Keys : Len(pools[k]) <= max_size

\* C2: with pooling enabled and a key holding max_size entries (or more), a
\* put to that key never changes any list, moves on from every statement it
\* reaches without waiting, and completes having invoked close exactly once,
\* on the incoming connection
C2_RejectOnFull ==
    [][\A t \in Threads :
         (Running(t, "put") /\ enabled /\ Len(pools[conn_str[t]]) >= max_size)
         => /\ pools' = pools
            /\ ENABLED Step(t)
            /\ pc'[t] = "done" =>
                 /\ log'[t] = << <<"close", conn[t]>> >>
                 /\ closes' = [closes EXCEPT ![conn[t]] = @ + 1]
                 /\ lock' = NoThread]_vars

C2_Witness ==
    \E t \in Threads :
        /\ Finished(t, "put") /\ enabled
        /\ Len(pools[conn_str[t]]) = max_size
        /\ log[t] = << <<"close", conn[t]>> >>

\* C3: a list grows only by put appending at its end, and a get whose first
\* candidate is fresh and passes the probe returns the last entry of the
\* list and leaves the entries before it, so successive gets return the
\* entries in reverse order of their put
C3_Lifo ==
    [][/\ \A t \in Threads :
            (pc[t] = "p_store" /\ pools' # pools)
            => pools' = [pools EXCEPT ![conn_str[t]] =
                            Append(@, <<conn[t], monotonic>>)]
       /\ \A t \in Threads :
            (Completes(t, "get") /\ log'[t] = << <<"probe", conn[t]>> >>)
            => /\ seen[t] # <<>>
               /\ ret'[t] = Last(seen[t])[1]
               /\ pools'[conn_str[t]] = Front(seen[t])]_vars

C3_Witness ==
    \E t \in Threads :
        /\ Finished(t, "get") /\ Len(seen[t]) = 2
        /\ ret[t] = seen[t][2][1]
        /\ pools[conn_str[t]] = <<seen[t][1]>>

\* C4: a get that ran with pooling enabled never returns an entry whose age
\* at the lookup (now - returned_at) is idle_timeout or more, so it returns
\* nothing when idle_timeout = 0; every such entry the search reached was
\* removed and closed once without being probed, and the search went on:
\* it ended only by returning a connection or with the list exhausted
C4_ExpiredNeverReturned ==
    \A t \in Threads :
        (Finished(t, "get") /\ enabled) =>
        LET k == conn_str[t]
            n == Len(pools[k])
        IN /\ \A i \in 1..Len(seen[t]) :
                 now[t] - seen[t][i][2] >= idle_timeout =>
                 LET c == seen[t][i][1] IN
                 /\ ret[t] # c
                 /\ i > n => /\ Count(log[t], "close", c) = 1
                             /\ Count(log[t], "probe", c) = 0
                             /\ closes[c] = 1
                             /\ c \notin Stored
           /\ ret[t] = NoConn => pools[k] = <<>>
           /\ idle_timeout = 0 => ret[t] = NoConn
           /\ ~raised[t]

C4_Witness ==
    \E t \in Threads :
        /\ Finished(t, "get") /\ enabled /\ idle_timeout = 1
        /\ Len(seen[t]) = 2
        /\ now[t] - seen[t][2][2] = idle_timeout
        /\ log[t] = << <<"close", seen[t][2][1]>>, <<"close", seen[t][1][1]>> >>
        /\ ret[t] = NoConn

\* C5: a disable that runs alone completes without raising, with every list
\* empty, having invoked close exactly once on each connection that was
\* stored and on no other connection, whatever the close calls did
C5_DisableClosesAll ==
    [][\A t \in Threads :
         Completes(t, "disable") =>
         /\ \A k \in Keys : pools'[k] = <<>>
         /\ ~raised'[t]
         /\ \A c \in Conns :
              Count(log'[t], "close", c) = IF c \in Stored THEN 1 ELSE 0]_vars

C5_Witness ==
    \E t \in Threads :
        /\ Finished(t, "disable")
        /\ Len(log[t]) >= 2
        /\ Stored = {}

\* C6: in sequential use the pool starts disabled and empty; a disabled pool
\* stores nothing once disable is over; get on a disabled pool returns none
\* and changes nothing; put on a disabled pool stores nothing and closes the
\* connection; enable touches no list, a list grows only by a put to its
\* key, and get on an empty list returns none, so after disable and enable
\* a key gives none until a put to it
C6_Lifecycle ==
    /\ ~enabled /\ Stored = {}
    /\ [][/\ (~enabled' /\ \A t \in Threads : ~Running(t, "disable")') => Stored' = {}
          /\ \A t \in Threads :
               (pc[t] = "g_enabled" /\ ~enabled /\ pc'[t] # pc[t])
               => /\ pc'[t] = "done" /\ ret'[t] = NoConn /\ ~raised'[t]
                  /\ UNCHANGED <<lock, pools, config, closes>>
          /\ \A t \in Threads :
               (Running(t, "put") /\ ~enabled)
               => /\ pools' = pools
                  /\ pc'[t] = "done" => log'[t] = << <<"close", conn[t]>> >>
          /\ \A t \in Threads :
               Running(t, "enable") => pools' = pools /\ closes' = closes
          /\ \A k \in Keys :
               Len(pools'[k]) > Len(pools[k])
               => \E t \in Threads : pc[t] = "p_store" /\ conn_str[t] = k
          /\ \A t \in Threads :
               (Completes(t, "get") /\ seen[t] = <<>>)
               => ret'[t] = NoConn]_vars

C6_Witness ==
    \E t \in Threads :
        /\ Finished(t, "get") /\ ~enabled /\ ret[t] = NoConn
        /\ max_size # DefaultMaxSize
        /\ \E c \in Conns : closes[c] > 0

\* C7: once disable has returned, with no enable called since and no put
\* executing, no connection is stored in any list
C7_DisabledPoolEmpty ==
    (~enabled /\ \A t \in Threads : op[t] \notin {"put", "enable"}
                                   /\ ~Running(t, "disable"))
    => Stored = {}

\* thread t is inside a liveness probe or a close call
InProbeOrClose(t) ==
    pc[t] \in {"g_probe", "g_close", "d_close", "p_close_full", "p_close_disabled"}

\* C8: no thread holds the lock while it executes a liveness probe or a
\* close call
C8_NoLockAcrossProbeOrClose == \A t \in Threads : InProbeOrClose(t) => lock # t

\* C9: no pool operation ends by raising
C9_CloseFailureSwallowed == \A t \in Threads : pc[t] = "done" => ~raised[t]

\* entry i of the list get found was discarded: removed, closed once, and
\* probed only if it was fresh
Removed(t, i) ==
    LET c == seen[t][i][1]
        fresh == now[t] - seen[t][i][2] < idle_timeout
    IN /\ c \notin Stored
       /\ closes[c] = 1
       /\ Count(log[t], "close", c) = 1
       /\ Count(log[t], "probe", c) = IF fresh THEN 1 ELSE 0

\* C10: a get that ran with pooling enabled returns the most recent entry
\* that is fresh and passed the probe: the entries older than it stay stored
\* in their order, every more recent one was removed and closed (being
\* expired, or probed and found dead), the returned one was probed and not
\* closed; if no entry qualifies it returns none, the list is empty and
\* every entry was closed; it never raises
C10_GetPostcondition ==
    \A t \in Threads :
        (Finished(t, "get") /\ enabled) =>
        LET k == conn_str[t]
            n == Len(pools[k])
            m == Len(seen[t])
        IN /\ ~raised[t]
           /\ n <= m
           /\ pools[k] = SubSeq(seen[t], 1, n)
           /\ IF ret[t] = NoConn
              THEN /\ n = 0
                   /\ \A i \in 1..m : Removed(t, i)
              ELSE /\ n < m
                   /\ ret[t] = seen[t][n + 1][1]
                   /\ now[t] - seen[t][n + 1][2] < idle_timeout
                   /\ Count(log[t], "probe", ret[t]) = 1
                   /\ Count(log[t], "close", ret[t]) = 0
                   /\ closes[ret[t]] = 0
                   /\ ret[t] \notin Stored
                   /\ \A i \in (n + 2)..m : Removed(t, i)

C10_Witness ==
    \E t \in Threads :
        /\ Finished(t, "get") /\ enabled
        /\ Len(seen[t]) = 2
        /\ pools[conn_str[t]] = <<>>
        /\ ret[t] = seen[t][1][1]
        /\ log[t] = << <<"probe", seen[t][2][1]>>, <<"close", seen[t][2][1]>>,
                       <<"probe", ret[t]>> >>

\* ---- vocabulary of the Row properties ----
\* the positions whose column name is name, and those whose name folds to it
ExactCols(name) ==
    {i \in 1..Len(column_map.names) : column_map.names[i] = name}
FoldedCols(name) ==
    {i \in 1..Len(column_map.names) : Lower(column_map.names[i]) = Lower(name)}
Least(S) == CHOOSE i \in S : \A j \in S : i <= j

\* C11: reading a Row by name is a two-stage lookup: a column whose name is
\* exactly the requested one always wins; failing that, and only if the
\* cursor is case-insensitive, the first column in declaration order whose
\* lower-cased name equals the lower-cased request is read; otherwise the
\* access fails with AttributeError
C11_TwoStageLookup ==
    (rout.op = "getattr" /\ ~column_map.none) =>
        IF ExactCols(rout.name) # {}
        THEN rout.res = "value"
             /\ rout.val = values.elems[Least(ExactCols(rout.name))]
        ELSE IF lowercase /\ FoldedCols(rout.name) # {}
        THEN rout.res = "value"
             /\ rout.val = values.elems[Least(FoldedCols(rout.name))]
        ELSE rout.res = "AttributeError"

\* a case-insensitive read that the second stage settles, two columns folding
\* to the request and holding different values
C11_Witness ==
    /\ rout.op = "getattr"
    /\ lowercase
    /\ ~column_map.none
    /\ ExactCols(rout.name) = {}
    /\ Cardinality(FoldedCols(rout.name)) = 2
    /\ values.elems[1] # values.elems[2]
    /\ rout.res = "value"
    /\ rout.val = values.elems[1]

\* C12: for every Row, built with a column map or without one, and for both
\* cursor modes, reading a name that matches no column fails with
\* AttributeError naming the requested column, and with no other kind of error
C12_UnknownNameAttributeError ==
    (/\ rout.op = "getattr"
     /\ ExactCols(rout.name) = {}
     /\ lowercase => FoldedCols(rout.name) = {})
        => rout.res = "AttributeError"

\* position i of the converted Row had a descriptor, a value and a converter
HadConverter(i) ==
    /\ i <= Len(rout.description)
    /\ rout.description[i] # NoDesc
    /\ rout.elems[i] # Null
    /\ \/ rout.description[i] \in converters
       \/ rout.elems[i] \in Strs \cup Bytes /\ SQL_WVARCHAR \in converters

\* what the converter found for position i returns when it does not raise
ConvertedValue(i) ==
    Converter(IF rout.description[i] \in converters
              THEN rout.description[i] ELSE SQL_WVARCHAR,
              IF rout.elems[i] \in Strs
              THEN Encode(rout.elems[i]) ELSE rout.elems[i])

\* C13: output conversion never raises and keeps the length of the row; a
\* position whose converter raises keeps its original value, and so does a
\* position whose value is None or that has no descriptor; every other
\* position with a converter is converted, whatever happened at the others
C13_ConverterFailureIsolated ==
    rout.op = "apply" =>
        /\ rout.res = "None"
        /\ Len(values.elems) = Len(rout.elems)
        /\ \A i \in 1..Len(rout.elems) :
               values.elems[i] = IF HadConverter(i) /\ i \notin rout.failing
                                 THEN ConvertedValue(i)
                                 ELSE rout.elems[i]

\* the converter raised at the first position, which kept its value, and the
\* second position was converted all the same
C13_Witness ==
    /\ rout.op = "apply"
    /\ Len(rout.elems) = 2
    /\ HadConverter(1) /\ 1 \in rout.failing
    /\ HadConverter(2) /\ 2 \notin rout.failing
    /\ values.elems[1] = rout.elems[1]
    /\ values.elems[2] = ConvertedValue(2)
    /\ values.elems[2] # rout.elems[2]

\* C14: a Row equals a plain sequence, list or tuple alike, exactly when
\* both have the same length and equal elements position by position, and
\* two Rows are equal exactly when their values are, whether or not output
\* conversion has turned the stored values of either into a list
C14_EqualityElementwise ==
    rout.op = "eq" => (rout.res = "True" <=> rout.elems = values.elems)

\* C15: whether an entry is stale is judged with the idle timeout configured
\* when get runs, not the one in force when the entry was put: the newest
\* entry of the key is returned exactly when its age at the get is below the
\* current idle_timeout and its probe passes
C15_TimeoutAtGetTime ==
    \A t \in Threads :
        (Finished(t, "get") /\ seen[t] # <<>>) =>
            (ret[t] = Last(seen[t])[1] <=>
                /\ now[t] - Last(seen[t])[2] < idle_timeout
                /\ Count(log[t], "close", Last(seen[t])[1]) = 0)

\* an entry stored under a timeout that would already call it stale is
\* returned by a get made after enable configured a longer timeout
C15_Witness ==
    \E t \in Threads :
        /\ Finished(t, "get")
        /\ seen[t] # <<>>
        /\ ret[t] = Last(seen[t])[1]
        /\ ret[t] = tracked
        /\ stored_under # idle_timeout
        /\ ~(now[t] - Last(seen[t])[2] < stored_under)
        /\ now[t] - Last(seen[t])[2] < idle_timeout

\* C16: enable changes nothing but the enabled flag and the two limits: no
\* step of it changes a list, closes a connection or touches the lock; it
\* ends with the flag set and the limits equal to its arguments, so a second
\* enable with the same arguments changes nothing at all
C16_EnableFrame ==
    [][\A t \in Threads :
          (op'[t] = "enable" /\ pc'[t] # pc[t]) =>
              /\ pools' = pools
              /\ closes' = closes
              /\ lock' = lock
              /\ Completes(t, "enable") =>
                     config' = <<TRUE, a_max_size[t], a_idle_timeout[t]>>
              /\ (/\ pc[t] # "idle"
                  /\ config = <<TRUE, a_max_size[t], a_idle_timeout[t]>>)
                     => config' = config]_vars

\* an enable has completed on a pool that holds entries
C16_Witness ==
    \E t \in Threads :
        /\ Finished(t, "enable")
        /\ Stored # {}
        /\ config = <<TRUE, a_max_size[t], a_idle_timeout[t]>>

\* C17: the keys partition the pool: no step of get(k) or put(k, c) changes
\* the list of another key or closes a connection stored under another key,
\* and the connection a get(k) returns was stored under k and under no
\* other key
C17_KeysPartition ==
    [][\A t \in Threads :
          (op'[t] \in {"get", "put"} /\ pc'[t] # pc[t]) =>
              /\ \A k \in Keys \ {conn_str'[t]} :
                     /\ pools'[k] = pools[k]
                     /\ \A c \in ConnsOf(pools[k]) : closes'[c] = closes[c]
              /\ (Completes(t, "get") /\ ret'[t] # NoConn) =>
                     /\ ret'[t] \in ConnsOf(seen[t])
                     /\ \A k \in Keys \ {conn_str[t]} :
                            ret'[t] \notin ConnsOf(pools[k])]_vars

\* a get on one key has returned a connection while another key holds one
C17_Witness ==
    \E t \in Threads :
        /\ Finished(t, "get")
        /\ ret[t] # NoConn
        /\ \E k \in Keys \ {conn_str[t]} : pools[k] # <<>>

\* how many entries of the pool hold connection c
Copies(c) ==
    Cardinality({<<k, i>> \in Keys \X (1..MaxMaxSize + NumConns) :
                    i <= Len(pools[k]) /\ pools[k][i][1] = c})

\* C18: with threads running pool methods at the same time, a stored
\* connection is handed out at most once until it is put again: no entry is
\* held twice, a connection a get has taken or returned is in no list, and no
\* two gets hold or return the same connection
C18_ExclusiveOwnership ==
    /\ \A c \in Conns : Copies(c) <= 1
    /\ \A t \in Threads :
           (op[t] = "get" /\ conn[t] # NoConn) => conn[t] \notin Stored
    /\ \A t, u \in Threads :
           (/\ t # u
            /\ op[t] = "get" /\ conn[t] # NoConn
            /\ op[u] = "get" /\ conn[u] # NoConn) => conn[t] # conn[u]
    /\ \A t \in Threads :
           (Finished(t, "get") /\ ret[t] # NoConn) =>
               /\ ret[t] = conn[t]
               /\ ret[t] \notin Stored

\* two gets on the same key overlapped and each returned a connection
C18_Witness ==
    \E t, u \in Threads :
        /\ t # u
        /\ Finished(t, "get") /\ ret[t] # NoConn
        /\ Finished(u, "get") /\ ret[u] # NoConn
        /\ conn_str[t] = conn_str[u]
        /\ ret[t] # ret[u]

\* C19: the pool never hands out a connection it has closed: the connection
\* a get returns has never been closed by the pool, and a connection the
\* pool has closed is in no list, except inside disable between its close
\* calls and the clear that ends the same locked region
C19_NeverReturnsClosed ==
    /\ \A t \in Threads :
           (Finished(t, "get") /\ ret[t] # NoConn) => closes[ret[t]] = 0
    /\ \A c \in Conns :
           (closes[c] > 0 /\ c \in Stored) =>
               \E t \in Threads : lock = t /\ Running(t, "disable")

\* a get returns a connection after the pool closed another one in an
\* earlier operation
C19_Witness ==
    \E t \in Threads :
        /\ Finished(t, "get")
        /\ ret[t] # NoConn
        /\ \E c \in Conns \ {ret[t]} :
               closes[c] > 0 /\ Count(log[t], "close", c) = 0

\* the statements of t that run inside a with self._lock block
InLockedRegion(t) ==
    pc[t] \in {"d_loop", "d_close", "d_clear", "g_loop", "g_probe", "g_close",
               "p_store", "p_close_full"}

\* C20: every pool operation releases the lock on every exit path, also when
\* a probe or a close raises: a thread holds the lock only inside a locked
\* region, never once its call has returned or raised, and a held lock is
\* always released again, so the lock cannot stay taken (no deadlock)
C20_LockReleased ==
    /\ [](\A t \in Threads : lock = t => InLockedRegion(t))
    /\ (lock # NoThread) ~> (lock = NoThread)

\* a put ended by raising out of its locked region, and another thread has
\* taken the lock since
C20_Witness ==
    \E t, u \in Threads :
        /\ t # u
        /\ Finished(t, "put") /\ raised[t]
        /\ lock = u

\* how many calls of one kind the running call of t has made
Calls(t, kind) == Cardinality({i \in 1..Len(log[t]) : log[t][i][1] = kind})

\* how many entries the get of t has removed from its key's list
Pops(t) == Len(seen[t]) - Len(pools[conn_str[t]])

\* C21: get always terminates: every iteration of its loop removes exactly
\* one entry of the key's list, so a get that finds n entries makes at most
\* n iterations, at most n probes and at most n closes, and then returns a
\* connection or None, whatever the probes and closes do (thread 1 is the
\* caller of sequential use)
C21_GetTerminates ==
    /\ [](\A t \in Threads :
             (op[t] = "get" /\ pc[t] \in {"g_loop", "g_probe", "g_close", "done"}
              /\ seen[t] # <<>>) =>
                 /\ Pops(t) \in 0..Len(seen[t])
                 /\ Calls(t, "probe") <= Pops(t)
                 /\ Calls(t, "close") <= Pops(t))
    /\ [][\A t \in Threads :
             (pc[t] = "g_loop" /\ pc'[t] \in {"g_probe", "g_close"}) =>
                 Len(pools'[conn_str[t]]) = Len(pools[conn_str[t]]) - 1]_vars
    /\ Running(1, "get") ~> Finished(1, "get")

\* a get that found two entries probed and closed both and returned None
C21_Witness ==
    \E t \in Threads :
        /\ Finished(t, "get")
        /\ Len(seen[t]) = 2
        /\ ret[t] = NoConn
        /\ Calls(t, "close") = 2
        /\ Calls(t, "probe") >= 1
        /\ Pops(t) = 2

==========================================================================
